---------------------------- MODULE Spec2Model ----------------------------
(***************************************************************************)
(* Model of the live audit pipeline of PolControl (src/main.py):           *)
(* AuditMonitor.start / stop / _monitor_loop and the consumer callback     *)
(* PolkitEditorApp.on_audit_event reached through GLib.idle_add.           *)
(*                                                                         *)
(* Threads.  start(), stop() and the idle callbacks all run on the GTK     *)
(* main thread (variable ctl is its position); every start() that passes   *)
(* the guard creates one worker thread running _monitor_loop.  Python      *)
(* threads interleave between attribute loads and stores, so stop() and    *)
(* the loop are cut at each read or write of self.running / self.process.  *)
(*                                                                         *)
(* Text.  A log line is a sequence of atoms (strings without inner         *)
(* structure).  Whitespace atoms are explicit.  The substring and regex    *)
(* tests of the code are computed over atoms with the tables below; the    *)
(* atom alphabet holds no atom that is a fragment of a keyword, so a       *)
(* keyword never straddles two atoms except where it holds a blank.        *)
(***************************************************************************)
EXTENDS Integers, Sequences, FiniteSets, TLC

(***************************************************************************)
(* Bounds of the model.                                                    *)
(***************************************************************************)
MaxCalls == 3
MaxReads == 2

(***************************************************************************)
(* Text helpers.                                                           *)
(***************************************************************************)
None == 0

Whitespace == {" ", "\n"}

\* str.lower() on one atom
Lower(a) ==
    CASE a = "Jan"         -> "jan"
      [] a = "Activating"  -> "activating"
      [] a = "Action="     -> "action="
      [] a = "Polkitd[1]:" -> "polkitd[1]:"
      [] a = "Denied"      -> "denied"
      [] a = "User="       -> "user="
      [] a = "org.example.Foo" -> "org.example.foo"
      [] a = "org.example.Bar" -> "org.example.bar"
      [] a = "org.example.Baz" -> "org.example.baz"
      [] OTHER             -> a

line_lower(line) == [i \in 1..Len(line) |-> Lower(line[i])]

\* pairs <<atom, keyword>> where the keyword is a proper substring of the atom
Within == { <<"polkitd[1]:", "polkit">>,
            <<"dbus-daemon[1]:", "dbus-daemon">>,
            <<"org.freedesktop.hostname1", "org.freedesktop">>,
            <<"org.freedesktop.policykit.exec", "org.freedesktop">> }

AtomHas(a, k) == a = k \/ <<a, k>> \in Within

\* Python's  kw in text , kw given as the atoms it spans
Contains(text, kw) ==
    \E i \in 1..Len(text) :
        /\ i + Len(kw) - 1 <= Len(text)
        /\ \A k \in 1..Len(kw) : AtomHas(text[i + k - 1], kw[k])

RECURSIVE LStrip(_)
LStrip(s) == IF s # << >> /\ Head(s) \in Whitespace THEN LStrip(Tail(s)) ELSE s

RECURSIVE RStrip(_)
RStrip(s) ==
    IF s # << >> /\ s[Len(s)] \in Whitespace
    THEN RStrip(SubSeq(s, 1, Len(s) - 1))
    ELSE s

\* str.strip()
Strip(s) == RStrip(LStrip(s))

\* length of the run of atoms of s, from position i on, that lie in set S
RECURSIVE RunLen(_, _, _)
RunLen(s, i, S) ==
    IF i <= Len(s) /\ s[i] \in S THEN 1 + RunLen(s, i + 1, S) ELSE 0

\* str.split(): the maximal runs of non-blank atoms, in order
Split(s) ==
    LET NonBlank == {s[j] : j \in 1..Len(s)} \ Whitespace
        starts   == {i \in 1..Len(s) :
                        /\ s[i] \notin Whitespace
                        /\ i = 1 \/ s[i - 1] \in Whitespace}
        nth(k)   == CHOOSE i \in starts :
                        Cardinality({j \in starts : j < i}) = k - 1
    IN  [k \in 1..Cardinality(starts) |->
            SubSeq(s, nth(k), nth(k) + RunLen(s, nth(k), NonBlank) - 1)]

\* " ".join(words)
RECURSIVE Join(_)
Join(ws) ==
    IF ws = << >> THEN << >>
    ELSE IF Len(ws) = 1 THEN ws[1]
    ELSE ws[1] \o <<" ">> \o Join(Tail(ws))

\* " ".join(full_line.split()[:3])
Timestamp(full) ==
    LET ws == Split(full)
    IN  Join(SubSeq(ws, 1, IF Len(ws) < 3 THEN Len(ws) ELSE 3))

(***************************************************************************)
(* Character classes of the regular expressions, per atom.                 *)
(***************************************************************************)
\* atoms made only of [a-zA-Z0-9_]
WordAtoms == {"Jan", "jan", "01", "host", "action", "alice", "bob", "carol",
             "1000",
             "4242", "is", "polkit",
             "authorized", "denied", "Denied", "failed", "successfully",
             "accepted", "service", "Activating", "activating", "tick",
             "unknown", "transaction"}

\* atoms made only of [a-zA-Z0-9.-]
IdAtoms == WordAtoms \cup {"org.example.Foo", "org.example.Bar",
                           "org.example.Baz", "org.freedesktop.hostname1",
                           "org.freedesktop.policykit.exec"}

\* atoms made only of [0-9]
DigitAtoms == {"01", "1000", "4242"}

\* atoms that end with "action" or with "Action="
ActionEnd == {"action", "Action=", "transaction"}

\* atoms that end with "unix-user:" or with "user="
UserEnd == {"unix-user:", "user="}

\* atoms that end with  name='
NameEnd == {"name='"}

\* atoms that end with  uid=
UidEnd == {"uid="}

\* atoms that hold a quote character
QuoteAtoms == {"name='", "'"}

SelfAction == <<"org.freedesktop.policykit.exec">>

Unknown == <<"unknown">>

\* the least position of S (where the leftmost match starts), 0 if S is empty
FirstPos(S) == IF S = {} THEN 0 ELSE CHOOSE p \in S : \A q \in S : p <= q

\* re.search(r'(?:action|Action=)\s+([a-zA-Z0-9\.\-]+)', full):
\* group(1), or << >> when there is no match
ActMatch(full) ==
    LET sp(i) == RunLen(full, i + 1, Whitespace)
        ok(i) == /\ full[i] \in ActionEnd
                 /\ sp(i) >= 1
                 /\ RunLen(full, i + 1 + sp(i), IdAtoms) >= 1
        p  == FirstPos({i \in 1..Len(full) : ok(i)})
        b  == p + 1 + sp(p)
    IN  IF p = 0 THEN << >>
        ELSE SubSeq(full, b, b + RunLen(full, b, IdAtoms) - 1)

\* re.search(r'(?:unix-user:|user=)(\w+)', full): group(1) or << >>
UserMatch(full) ==
    LET ok(i) == full[i] \in UserEnd /\ RunLen(full, i + 1, WordAtoms) >= 1
        p  == FirstPos({i \in 1..Len(full) : ok(i)})
    IN  IF p = 0 THEN << >>
        ELSE SubSeq(full, p + 1, p + RunLen(full, p + 1, WordAtoms))

\* re.search(r"name='([^']+)'", full): group(1) or << >>
SvcMatch(full) ==
    LET NonQuote == {full[j] : j \in 1..Len(full)} \ QuoteAtoms
        ok(i) == /\ full[i] \in NameEnd
                 /\ RunLen(full, i + 1, NonQuote) >= 1
                 /\ i + 1 + RunLen(full, i + 1, NonQuote) <= Len(full)
                 /\ full[i + 1 + RunLen(full, i + 1, NonQuote)] = "'"
        p  == FirstPos({i \in 1..Len(full) : ok(i)})
    IN  IF p = 0 THEN << >>
        ELSE SubSeq(full, p + 1, p + RunLen(full, p + 1, NonQuote))

\* re.search(r'uid=(\d+)', full): group(1) or << >>
UidMatch(full) ==
    LET ok(i) == full[i] \in UidEnd /\ RunLen(full, i + 1, DigitAtoms) >= 1
        p  == FirstPos({i \in 1..Len(full) : ok(i)})
    IN  IF p = 0 THEN << >>
        ELSE SubSeq(full, p + 1, p + RunLen(full, p + 1, DigitAtoms))

\* pwd.getpwuid(int(uid)).pw_name, with the bare except: the uid text itself
\* when the identity database has no such entry
GetPwName(uid) == IF uid = <<"1000">> THEN <<"bob">> ELSE uid

is_polkit(line) == Contains(line_lower(line), <<"polkit">>)

is_dbus(line) ==
    /\ Contains(line_lower(line), <<"dbus-daemon">>)
    /\ Contains(line_lower(line), <<"activating", " ", "service">>)

\* the classification with the two keyword tests in the other order
PolkitResultDeniedFirst(line) ==
    LET low == line_lower(line)
    IN  IF Contains(low, <<"denied">>) \/ Contains(low, <<"failed">>)
        THEN "Denied"
        ELSE IF \/ Contains(low, <<"successfully">>)
                \/ Contains(low, <<"accepted">>)
                \/ Contains(low, <<"is", " ", "authorized">>)
        THEN "Allowed"
        ELSE "Info"

\* the keyword classification of a polkit line
PolkitResult(line) ==
    LET low == line_lower(line)
    IN  IF \/ Contains(low, <<"successfully">>)
           \/ Contains(low, <<"accepted">>)
           \/ Contains(low, <<"is", " ", "authorized">>)
        THEN "Allowed"
        ELSE IF Contains(low, <<"denied">>) \/ Contains(low, <<"failed">>)
        THEN "Denied"
        ELSE "Info"

NoEvent == [family |-> "none"]

\* the polkit grammar without the test of line 94
PolkitGrammarNoSentinel(line) ==
    LET full == Strip(line)
    IN  IF ActMatch(full) = << >> THEN NoEvent
        ELSE [family    |-> "PolicyDecision",
              timestamp |-> Timestamp(full),
              action_id |-> ActMatch(full),
              user      |-> IF UserMatch(full) # << >>
                            THEN UserMatch(full) ELSE Unknown,
              result    |-> PolkitResult(line)]

\* the polkit grammar keeping the initial action_id when nothing matches
PolkitGrammarNoDiscard(line) ==
    LET full == Strip(line)
    IN  IF ActMatch(full) = SelfAction THEN NoEvent
        ELSE [family    |-> "PolicyDecision",
              timestamp |-> Timestamp(full),
              action_id |-> IF ActMatch(full) # << >>
                            THEN ActMatch(full) ELSE Unknown,
              user      |-> IF UserMatch(full) # << >>
                            THEN UserMatch(full) ELSE Unknown,
              result    |-> PolkitResult(line)]

\* the polkit grammar discarding a line in which no user matches
PolkitGrammarNeedsUser(line) ==
    LET full == Strip(line)
    IN  IF ActMatch(full) = << >> THEN NoEvent
        ELSE IF ActMatch(full) = SelfAction THEN NoEvent
        ELSE IF UserMatch(full) = << >> THEN NoEvent
        ELSE [family    |-> "PolicyDecision",
              timestamp |-> Timestamp(full),
              action_id |-> ActMatch(full),
              user      |-> UserMatch(full),
              result    |-> PolkitResult(line)]

\* lines 90-102, the polkit grammar: the event, or NoEvent on a  continue
PolkitGrammar(line) ==
    LET full == Strip(line)
    IN  IF ActMatch(full) = << >> THEN NoEvent
        ELSE IF ActMatch(full) = SelfAction THEN NoEvent
        ELSE [family    |-> "PolicyDecision",
              timestamp |-> Timestamp(full),
              action_id |-> ActMatch(full),
              user      |-> IF UserMatch(full) # << >>
                            THEN UserMatch(full) ELSE Unknown,
              result    |-> PolkitResult(line)]

\* the dbus grammar taking its outcome from the keyword classification
DbusGrammarKeyword(line) ==
    LET full == Strip(line)
    IN  IF SvcMatch(full) = << >> THEN NoEvent
        ELSE [family    |-> "ServiceActivation",
              timestamp |-> Timestamp(full),
              action_id |-> SvcMatch(full),
              user      |-> IF UidMatch(full) # << >>
                            THEN GetPwName(UidMatch(full)) ELSE Unknown,
              result    |-> PolkitResult(line)]

\* the dbus grammar without the inner handler of line 113: a failed lookup
\* reaches line 118 and the line is dropped
DbusGrammarLookupRaises(line) ==
    LET full == Strip(line)
    IN  IF SvcMatch(full) = << >> THEN NoEvent
        ELSE IF UidMatch(full) # << >> /\ GetPwName(UidMatch(full)) = UidMatch(full)
        THEN NoEvent
        ELSE [family    |-> "ServiceActivation",
              timestamp |-> Timestamp(full),
              action_id |-> SvcMatch(full),
              user      |-> IF UidMatch(full) # << >>
                            THEN GetPwName(UidMatch(full)) ELSE Unknown,
              result    |-> "Activating"]

\* lines 105-115, the dbus grammar: the event, or NoEvent on a  continue
DbusGrammar(line) ==
    LET full == Strip(line)
    IN  IF SvcMatch(full) = << >> THEN NoEvent
        ELSE [family    |-> "ServiceActivation",
              timestamp |-> Timestamp(full),
              action_id |-> SvcMatch(full),
              user      |-> IF UidMatch(full) # << >>
                            THEN GetPwName(UidMatch(full)) ELSE Unknown,
              result    |-> "Activating"]

\* the loop body without the filter of line 79: an unrouted line reaches
\* GLib.idle_add with the initial values
ParseLineNoFilter(line) ==
    IF is_polkit(line) THEN PolkitGrammar(line)
    ELSE IF is_dbus(line) THEN DbusGrammar(line)
    ELSE [family    |-> "unrouted",
          timestamp |-> Timestamp(Strip(line)),
          action_id |-> Unknown,
          user      |-> Unknown,
          result    |-> "Info"]

\* the loop body trying the dbus grammar when the polkit grammar finds
\* no action id
ParseLineFallback(line) ==
    IF ~(is_polkit(line) \/ is_dbus(line)) THEN NoEvent
    ELSE IF is_polkit(line) /\ ~(ActMatch(Strip(line)) = << >> /\ is_dbus(line))
    THEN PolkitGrammar(line)
    ELSE DbusGrammar(line)

\* one pass of the loop body on a line that was read: the event handed to
\* GLib.idle_add, or NoEvent when the body reaches a  continue
ParseLine(line) ==
    IF ~(is_polkit(line) \/ is_dbus(line)) THEN NoEvent
    ELSE IF is_polkit(line) THEN PolkitGrammar(line)
    ELSE DbusGrammar(line)

(***************************************************************************)
(* The lines the log-follow subprocess can print in this model.            *)
(***************************************************************************)
LineAllowed ==
    <<"Jan", " ", "01", " ", "10:00:00", " ", "host", " ", "polkitd[1]:", " ",
      "action", " ", "org.example.Foo", " ", "unix-user:", "alice", " ",
      "is", " ", "authorized", "\n">>

LineNoise ==
    <<"Jan", " ", "01", " ", "10:00:03", " ", "host", " ", "kernel:", " ",
      "tick", "\n">>

LineDbus ==
    <<"Jan", " ", "01", " ", "10:00:02", " ", "host", " ", "dbus-daemon[1]:",
      " ", "Activating", " ", "service", " ", "name='",
      "org.freedesktop.hostname1", "'", " ", "uid=", "1000", "\n">>

StreamLines == {LineAllowed, LineNoise, LineDbus}

\* the loop body on each line of the stream, computed once
ParseTable == [l \in StreamLines |-> ParseLine(l)]

\* the lines that pass the filter of line 79 and enter the try block
InTry == {l \in StreamLines : is_polkit(l) \/ is_dbus(l)}

\* the loop body on any line
LoopBody(l) == IF l \in StreamLines THEN ParseTable[l] ELSE ParseLine(l)

(***************************************************************************)
(* The lines on which the loop body is examined by itself: the header of   *)
(* the short journal format, the tag of the program that logged, and up to *)
(* MaxChunks phrases separated by blanks.                                  *)
(***************************************************************************)
MaxChunks == 3

Header == <<"Jan", " ", "01", " ", "10:00:00", " ", "host", " ">>

Tags == {"polkitd[1]:", "dbus-daemon[1]:", "kernel:"}

Chunks == { <<"polkit">>,
            <<"Activating", " ", "service">>,
            <<"action", " ", "org.example.Foo">>,
            <<"Action=", "org.example.Bar">>,
            <<"Action=", " ", "org.example.Bar">>,
            <<"action", " ", "org.freedesktop.policykit.exec">>,
            <<"action", " ", "unknown">>,
            <<"unix-user:", "alice">>,
            <<"user=", "bob">>,
            <<"User=", "carol">>,
            <<"is", " ", "authorized">>,
            <<"Denied">>,
            <<"name='", "org.example.Baz", "'">>,
            <<"uid=", "1000">>,
            <<"uid=", "4242">> }

\* the messages of exactly n phrases, each preceded by a blank
RECURSIVE Messages(_)
Messages(n) ==
    IF n = 0 THEN {<< >>}
    ELSE {m \o <<" ">> \o c : m \in Messages(n - 1), c \in Chunks}

ParseLines ==
    {Header \o <<t>> \o m \o <<"\n">> :
        t \in Tags, m \in UNION {Messages(n) : n \in 0..MaxChunks}}


(***************************************************************************)
(* State.                                                                  *)
(***************************************************************************)
VARIABLES
    running,     \* AuditMonitor.running
    process,     \* AuditMonitor.process: None or the subprocess it refers to
    ctl,         \* position of the main thread: "idle" or inside stop()
    nStarts,     \* calls of start() so far
    nStops,      \* calls of stop() so far
    stopRaised,  \* an exception has left stop()
    wk,          \* the worker threads: position and locals of _monitor_loop;
                 \* caught: the handler of line 120 has run in this thread
    procs,       \* the log-follow subprocesses, procs[w] spawned by worker w
    nread,       \* lines handed out by readline() so far, over all workers
    idleQueue,   \* callbacks scheduled by GLib.idle_add, not yet dispatched
    log_store,   \* PolkitEditorApp.log_store, newest row first
    audit_btn,   \* PolkitEditorApp.audit_btn.get_active()
    search,      \* text of PolkitEditorApp.search
    parseErrors  \* "Audit Parse Error" diagnostics printed so far

vars == <<running, process, ctl, nStarts, nStops, stopRaised, wk, procs,
          nread, idleQueue, log_store, audit_btn, search, parseErrors>>

Workers == 1..MaxCalls

\* a thread that start() has not created yet
Unborn == [pc |-> "unborn", h |-> None, line |-> << >>, stamp |-> 0,
           sawStop |-> FALSE, extra |-> 0, caught |-> FALSE]

Created == {w \in Workers : wk[w].pc # "unborn"}

Live == {w \in Workers : wk[w].pc \notin {"unborn", "done"}}

Alive == {p \in Workers : procs[p] = "alive"}

Init ==
    /\ running = FALSE
    /\ process = None
    /\ ctl = "idle"
    /\ nStarts = 0
    /\ nStops = 0
    /\ stopRaised = FALSE
    /\ wk = [w \in Workers |-> Unborn]
    /\ procs = [p \in Workers |-> "none"]
    /\ nread = 0
    /\ idleQueue = << >>
    /\ log_store = << >>
    /\ audit_btn = FALSE
    /\ search = << >>
    /\ parseErrors = 0

(***************************************************************************)
(* The controller, on the main thread.                                     *)
(***************************************************************************)
\* start() without line 53: every call creates a thread
StartNoGuard ==
    /\ ctl = "idle"
    /\ nStarts + nStops < MaxCalls
    /\ nStarts' = nStarts + 1
    /\ audit_btn' = TRUE
    /\ running' = TRUE
    /\ wk' = [wk EXCEPT ![Cardinality(Created) + 1].pc = "spawn"]
    /\ UNCHANGED <<process, ctl, nStops, stopRaised, procs, nread, idleQueue,
                   log_store, search, parseErrors>>

\* start() testing for a live thread instead of the flag: it creates a
\* thread again once the last one has ended
StartRestartsDead ==
    /\ ctl = "idle"
    /\ nStarts + nStops < MaxCalls
    /\ nStarts' = nStarts + 1
    /\ audit_btn' = TRUE
    /\ IF running /\ Live # {}
       THEN UNCHANGED <<running, wk>>
       ELSE /\ running' = TRUE
            /\ wk' = [wk EXCEPT ![Cardinality(Created) + 1].pc = "spawn"]
    /\ UNCHANGED <<process, ctl, nStops, stopRaised, procs, nread, idleQueue,
                   log_store, search, parseErrors>>

\* the audit button switched on: AuditMonitor.start(); the new thread is
\* the lowest unused worker
Start ==
    /\ ctl = "idle"
    /\ nStarts + nStops < MaxCalls
    /\ nStarts' = nStarts + 1
    /\ audit_btn' = TRUE
    /\ IF running
       THEN UNCHANGED <<running, wk>>
       ELSE /\ running' = TRUE
            /\ wk' = [wk EXCEPT ![Cardinality(Created) + 1].pc = "spawn"]
    /\ UNCHANGED <<process, ctl, nStops, stopRaised, procs, nread, idleQueue,
                   log_store, search, parseErrors>>

\* stop() also removing the idle callbacks that are still scheduled
StopCallCancels ==
    /\ ctl = "idle"
    /\ nStarts + nStops < MaxCalls
    /\ audit_btn' = FALSE
    /\ nStops' = nStops + 1
    /\ running' = FALSE
    /\ ctl' = "stop_test"
    /\ idleQueue' = << >>
    /\ wk' = [w \in Workers |->
                IF w \in Live THEN [wk[w] EXCEPT !.sawStop = TRUE, !.extra = 0]
                ELSE wk[w]]
    /\ UNCHANGED <<process, nStarts, stopRaised, procs, nread,
                   log_store, search, parseErrors>>

\* the audit button switched off: stop(), line 59: self.running = False
StopCall ==
    /\ ctl = "idle"
    /\ nStarts + nStops < MaxCalls
    /\ audit_btn' = FALSE
    /\ nStops' = nStops + 1
    /\ running' = FALSE
    /\ ctl' = "stop_test"
    /\ wk' = [w \in Workers |->
                IF w \in Live THEN [wk[w] EXCEPT !.sawStop = TRUE, !.extra = 0]
                ELSE wk[w]]
    /\ UNCHANGED <<process, nStarts, stopRaised, procs, nread, idleQueue,
                   log_store, search, parseErrors>>

\* stop() without the test of line 60
StopTestNoGuard ==
    /\ ctl = "stop_test"
    /\ ctl' = "stop_term"
    /\ UNCHANGED <<running, process, nStarts, nStops, stopRaised, wk, procs,
                   nread, idleQueue, log_store, audit_btn, search,
                   parseErrors>>

\* stop(), line 60: if self.process:
StopTest ==
    /\ ctl = "stop_test"
    /\ ctl' = IF process # None THEN "stop_term" ELSE "idle"
    /\ UNCHANGED <<running, process, nStarts, nStops, stopRaised, wk, procs,
                   nread, idleQueue, log_store, audit_btn, search, parseErrors>>

\* stop(), line 61: self.process.terminate(); on None the lookup raises
StopTerminate ==
    /\ ctl = "stop_term"
    /\ IF process = None
       THEN /\ stopRaised' = TRUE
            /\ ctl' = "idle"
            /\ UNCHANGED procs
       ELSE /\ procs' = [procs EXCEPT ![process] =
                            IF @ = "alive" THEN "dead" ELSE @]
            /\ ctl' = "stop_release"
            /\ UNCHANGED stopRaised
    /\ UNCHANGED <<running, process, nStarts, nStops, wk, nread, idleQueue,
                   log_store, audit_btn, search, parseErrors>>

\* stop(), line 62: self.process = None
StopRelease ==
    /\ ctl = "stop_release"
    /\ process' = None
    /\ ctl' = "idle"
    /\ UNCHANGED <<running, nStarts, nStops, stopRaised, wk, procs, nread,
                   idleQueue, log_store, audit_btn, search, parseErrors>>

(***************************************************************************)
(* The worker thread, _monitor_loop.                                       *)
(***************************************************************************)
\* line 69: self.process = subprocess.Popen(...)
Spawn(w) ==
    /\ wk[w].pc = "spawn"
    /\ procs' = [procs EXCEPT ![w] = "alive"]
    /\ process' = w
    /\ wk' = [wk EXCEPT ![w].pc = "check"]
    /\ UNCHANGED <<running, ctl, nStarts, nStops, stopRaised, nread, idleQueue,
                   log_store, audit_btn, search, parseErrors>>

\* the spawn failure handled by resetting the flag in the worker
SpawnFailClearsFlag(w) ==
    /\ wk[w].pc = "spawn"
    /\ running' = FALSE
    /\ wk' = [wk EXCEPT ![w].pc = "done", ![w].caught = TRUE]
    /\ UNCHANGED <<process, ctl, nStarts, nStops, stopRaised, procs,
                   nread, idleQueue, log_store, audit_btn, search,
                   parseErrors>>

\* the spawn failure with no handler at line 120: the error leaves the thread
SpawnFailEscapes(w) ==
    /\ wk[w].pc = "spawn"
    /\ wk' = [wk EXCEPT ![w].pc = "crashed"]
    /\ UNCHANGED <<running, process, ctl, nStarts, nStops, stopRaised, procs,
                   nread, idleQueue, log_store, audit_btn, search,
                   parseErrors>>

\* line 69 raises (no such command): caught at line 120, the thread ends
SpawnFail(w) ==
    /\ wk[w].pc = "spawn"
    /\ wk' = [wk EXCEPT ![w].pc = "done", ![w].caught = TRUE]
    /\ UNCHANGED <<running, process, ctl, nStarts, nStops, stopRaised, procs,
                   nread, idleQueue, log_store, audit_btn, search, parseErrors>>

\* line 70: while self.running:
Check(w) ==
    /\ wk[w].pc = "check"
    /\ wk' = [wk EXCEPT ![w].pc = IF running THEN "load" ELSE "done"]
    /\ UNCHANGED <<running, process, ctl, nStarts, nStops, stopRaised, procs,
                   nread, idleQueue, log_store, audit_btn, search, parseErrors>>

\* the lookup on None raising with no handler at line 120
LoadNoneEscapes(w) ==
    /\ wk[w].pc = "load"
    /\ wk' = IF process = None
             THEN [wk EXCEPT ![w].pc = "crashed"]
             ELSE [wk EXCEPT ![w].pc = "read", ![w].h = process]
    /\ UNCHANGED <<running, process, ctl, nStarts, nStops, stopRaised, procs,
                   nread, idleQueue, log_store, audit_btn, search, parseErrors>>

\* line 71, self.process.stdout: on None the lookup raises, caught at line 120
Load(w) ==
    /\ wk[w].pc = "load"
    /\ wk' = IF process = None
             THEN [wk EXCEPT ![w].pc = "done", ![w].caught = TRUE]
             ELSE [wk EXCEPT ![w].pc = "read", ![w].h = process]
    /\ UNCHANGED <<running, process, ctl, nStarts, nStops, stopRaised, procs,
                   nread, idleQueue, log_store, audit_btn, search, parseErrors>>

\* line 71, readline() returns a line: printed by a running subprocess, or
\* left in the pipe by one that has ended
ReadLine(w) ==
    /\ wk[w].pc = "read"
    /\ procs[wk[w].h] \in {"alive", "dead"}
    /\ nread < MaxReads
    /\ nread' = nread + 1
    /\ \E l \in StreamLines :
          wk' = [wk EXCEPT ![w].pc = "body", ![w].line = l,
                           ![w].stamp = nread + 1,
                           ![w].extra = IF wk[w].sawStop THEN @ + 1 ELSE @]
    /\ UNCHANGED <<running, process, ctl, nStarts, nStops, stopRaised, procs,
                   idleQueue, log_store, audit_btn, search, parseErrors>>

\* end of stream, with the worker releasing the handle itself
ReadEOFReleases(w) ==
    /\ wk[w].pc = "read"
    /\ procs[wk[w].h] \in {"dead", "drained"}
    /\ procs' = [procs EXCEPT ![wk[w].h] = "drained"]
    /\ process' = None
    /\ wk' = [wk EXCEPT ![w].pc = "done"]
    /\ UNCHANGED <<running, ctl, nStarts, nStops, stopRaised, nread,
                   idleQueue, log_store, audit_btn, search, parseErrors>>

\* lines 71-72, readline() returns "" at end of stream: break
ReadEOF(w) ==
    /\ wk[w].pc = "read"
    /\ procs[wk[w].h] \in {"dead", "drained"}
    /\ procs' = [procs EXCEPT ![wk[w].h] = "drained"]
    /\ wk' = [wk EXCEPT ![w].pc = "done"]
    /\ UNCHANGED <<running, process, ctl, nStarts, nStops, stopRaised, nread,
                   idleQueue, log_store, audit_btn, search, parseErrors>>

\* line 71, readline() raises (undecodable bytes): caught at line 120
ReadRaise(w) ==
    /\ wk[w].pc = "read"
    /\ procs[wk[w].h] \in {"alive", "dead"}
    /\ wk' = [wk EXCEPT ![w].pc = "done", ![w].caught = TRUE]
    /\ UNCHANGED <<running, process, ctl, nStarts, nStops, stopRaised, procs,
                   nread, idleQueue, log_store, audit_btn, search, parseErrors>>

\* the loop body calling self.callback in place instead of GLib.idle_add
BodyInPlace(w) ==
    /\ wk[w].pc = "body"
    /\ LET ev == LoopBody(wk[w].line)
       IN  log_store' = IF ev = NoEvent THEN log_store
                        ELSE <<[seq |-> wk[w].stamp, src |-> wk[w].h,
                                ev |-> ev]>> \o log_store
    /\ wk' = [wk EXCEPT ![w].pc = "check", ![w].stamp = 0]
    /\ UNCHANGED <<running, process, ctl, nStarts, nStops, stopRaised, procs,
                   nread, idleQueue, audit_btn, search, parseErrors>>

\* lines 75-117: filter, extract, GLib.idle_add; back to the loop head
Body(w) ==
    /\ wk[w].pc = "body"
    /\ LET ev == LoopBody(wk[w].line)
       IN  idleQueue' = IF ev = NoEvent THEN idleQueue
                        ELSE Append(idleQueue, [seq |-> wk[w].stamp, src |-> wk[w].h,
                                                ev |-> ev])
    /\ wk' = [wk EXCEPT ![w].pc = "check", ![w].stamp = 0]
    /\ UNCHANGED <<running, process, ctl, nStarts, nStops, stopRaised, procs,
                   nread, log_store, audit_btn, search, parseErrors>>

\* the extraction raises with no handler at line 118: the error reaches
\* line 120 and ends the thread
BodyRaiseEscapes(w) ==
    /\ wk[w].pc = "body"
    /\ wk[w].line \in InTry
    /\ parseErrors' = parseErrors + 1
    /\ wk' = [wk EXCEPT ![w].pc = "done", ![w].stamp = 0, ![w].caught = TRUE]
    /\ UNCHANGED <<running, process, ctl, nStarts, nStops, stopRaised, procs,
                   nread, idleQueue, log_store, audit_btn, search>>

\* lines 81-119: a step of the extraction raises; caught at line 118, the
\* line is dropped and the loop goes on
BodyRaise(w) ==
    /\ wk[w].pc = "body"
    /\ wk[w].line \in InTry
    /\ parseErrors' = parseErrors + 1
    /\ wk' = [wk EXCEPT ![w].pc = "check", ![w].stamp = 0]
    /\ UNCHANGED <<running, process, ctl, nStarts, nStops, stopRaised, procs,
                   nread, idleQueue, log_store, audit_btn, search>>

(***************************************************************************)
(* The environment and the consumer.                                       *)
(***************************************************************************)
\* the log-follow subprocess ends on its own
ProcExit(p) ==
    /\ procs[p] = "alive"
    /\ procs' = [procs EXCEPT ![p] = "dead"]
    /\ UNCHANGED <<running, process, ctl, nStarts, nStops, stopRaised, wk,
                   nread, idleQueue, log_store, audit_btn, search, parseErrors>>

\* the callback asking to be called again (a true return value): the idle
\* source stays scheduled
DeliverKeeps ==
    /\ ctl = "idle"
    /\ idleQueue # << >>
    /\ Len(log_store) <= MaxReads
    /\ log_store' = <<Head(idleQueue)>> \o log_store
    /\ UNCHANGED <<running, process, ctl, nStarts, nStops, stopRaised, wk,
                   procs, nread, idleQueue, audit_btn, search, parseErrors>>

\* the main loop dispatches the oldest idle callback: on_audit_event
Deliver ==
    /\ ctl = "idle"
    /\ idleQueue # << >>
    /\ log_store' = <<Head(idleQueue)>> \o log_store
    /\ idleQueue' = Tail(idleQueue)
    /\ LET action_id == Head(idleQueue).ev.action_id
       IN  search' = IF audit_btn /\ Contains(action_id, <<"org.freedesktop">>)
                     THEN action_id
                     ELSE search
    /\ UNCHANGED <<running, process, ctl, nStarts, nStops, stopRaised, wk,
                   procs, nread, audit_btn, parseErrors>>

\* the steps a runnable worker thread takes by itself
WorkerRun(w) ==
    \/ Spawn(w)
    \/ Check(w)
    \/ Load(w)
    \/ ReadEOF(w)
    \/ Body(w)

Next ==
    \/ Start
    \/ StopCall
    \/ StopTest
    \/ StopTerminate
    \/ StopRelease
    \/ \E w \in Workers : Spawn(w)
    \/ \E w \in Workers : SpawnFail(w)
    \/ \E w \in Workers : Check(w)
    \/ \E w \in Workers : Load(w)
    \/ \E w \in Workers : ReadLine(w)
    \/ \E w \in Workers : ReadEOF(w)
    \/ \E w \in Workers : ReadRaise(w)
    \/ \E w \in Workers : Body(w)
    \/ \E w \in Workers : BodyRaise(w)
    \/ \E p \in Workers : ProcExit(p)
    \/ Deliver

Spec == Init /\ [][Next]_vars

\* the scheduler runs every runnable thread; a read blocked on a silent
\* subprocess is not runnable, and nobody has to call start() or stop()
FairSpec ==
    /\ Spec
    /\ WF_vars(StopTest \/ StopTerminate \/ StopRelease)
    /\ WF_vars(Deliver)
    /\ \A w \in Workers : WF_vars(WorkerRun(w))

\* worker 1 of a running monitor has just read line l from its subprocess
ParseInit ==
    /\ running = TRUE
    /\ process = 1
    /\ ctl = "idle"
    /\ nStarts = 1
    /\ nStops = 0
    /\ stopRaised = FALSE
    /\ \E l \in ParseLines :
          wk = [w \in Workers |->
                  IF w = 1
                  THEN [pc |-> "body", h |-> 1, line |-> l, stamp |-> 1,
                        sawStop |-> FALSE, extra |-> 0, caught |-> FALSE]
                  ELSE Unborn]
    /\ procs = [p \in Workers |-> IF p = 1 THEN "alive" ELSE "none"]
    /\ nread = 1
    /\ idleQueue = << >>
    /\ log_store = << >>
    /\ audit_btn = TRUE
    /\ search = << >>
    /\ parseErrors = 0

\* the loop body on that line, and the main loop dispatching its event
ParseNext ==
    \/ Body(1)
    \/ Deliver

ParseSpec == ParseInit /\ [][ParseNext]_vars

(***************************************************************************)
(* Properties.                                                             *)
(***************************************************************************)
Spawned == {p \in Workers : procs[p] # "none"}

\* C1: as long as stop() has never been called, start() has created exactly
\* one worker thread and at most one subprocess exists, however often
\* start() was called; and a start() that finds the monitor running changes
\* neither the flag, the handle, the threads nor the subprocesses.
C1_StartIdempotent ==
    /\ [](nStops = 0 /\ nStarts >= 1 =>
            /\ Cardinality(Created) = 1
            /\ Cardinality(Live) <= 1
            /\ Cardinality(Spawned) <= 1)
    /\ [][nStarts' = nStarts + 1 /\ running =>
            /\ running' = running
            /\ process' = process
            /\ wk' = wk
            /\ procs' = procs]_vars

\* start() called twice in a row, the one worker reading its subprocess
C1_Witness ==
    /\ nStops = 0
    /\ nStarts >= 2
    /\ Live = {1}
    /\ wk[1].pc = "read"
    /\ Alive = {1}

\* C2: at no time does the monitor have two live workers.
C2_AtMostOneLiveWorker == Cardinality(Live) <= 1

\* C3: no exception ever leaves stop(), and every return of stop() leaves
\* running = False and process = None.
C3_StopLeavesStopped ==
    /\ [](~stopRaised)
    /\ [][ctl # "idle" /\ ctl' = "idle" =>
            /\ running' = FALSE
            /\ process' = None
            /\ stopRaised' = FALSE]_vars

\* start(), stop(), stop(): the first stop() ended the subprocess and
\* released the handle, the second one has returned as well
C3_Witness ==
    /\ nStarts = 1
    /\ nStops = 2
    /\ ctl = "idle"
    /\ running = FALSE
    /\ process = None
    /\ procs[1] \in {"dead", "drained"}

\* C4: the rows of log_store that come from one stream are in the order in
\* which their lines were read (log_store holds the newest row first).
C4_SourceOrder ==
    \A i, j \in 1..Len(log_store) :
        i < j /\ log_store[i].src = log_store[j].src
            => log_store[i].seq > log_store[j].seq

\* C5: log_store and the search box change only in a step of the main loop
\* that dispatches the oldest scheduled callback; no worker moves in that
\* step, and a worker hands an event over only by appending it to the idle
\* queue.
C5_OnlyMainLoopDelivers ==
    [][log_store' # log_store \/ search' # search =>
            /\ ctl = "idle"
            /\ idleQueue # << >>
            /\ log_store' = <<Head(idleQueue)>> \o log_store
            /\ idleQueue' = Tail(idleQueue)
            /\ wk' = wk]_vars

\* an event has reached the consumer while its worker is still in the loop
C5_Witness ==
    /\ Len(log_store) >= 1
    /\ \E w \in Live : log_store[1].src = wk[w].h

\* C6: a step in which the extraction raises schedules nothing and leaves
\* the worker at the head of its loop with the same stream, the monitor's
\* flag and handle and every subprocess untouched.
C6_BadLineSkipped ==
    [][parseErrors' # parseErrors =>
            /\ idleQueue' = idleQueue
            /\ log_store' = log_store
            /\ running' = running
            /\ process' = process
            /\ procs' = procs
            /\ \E w \in Workers :
                  /\ wk[w].pc = "body"
                  /\ wk' = [wk EXCEPT ![w].pc = "check", ![w].stamp = 0]]_vars

\* the single worker dropped its first line on an error and has scheduled
\* the event of its second line
C6_Witness ==
    /\ Created = {1}
    /\ parseErrors = 1
    /\ nread = 2
    /\ Len(idleQueue) = 1
    /\ idleQueue[1].seq = 2

\* C7: once stop() has returned, the monitor is Stopped and no worker is
\* left, no subprocess of the monitor is running.
C7_NoSubprocessLeft ==
    nStops >= 1 /\ ctl = "idle" /\ running = FALSE /\ Live = {}
        => Alive = {}

\* C8: every worker that was live when stop() was called eventually ends.
C8_WorkersEventuallyExit ==
    \A w \in Workers : [](wk[w].sawStop => <>(wk[w].pc = "done"))

\* C9: a worker that was live when stop() was called reads at most one
\* more line after that call.
C9_AtMostOneExtraLine == \A w \in Workers : wk[w].extra <= 1

\* C10 as stated: no step of a worker changes the process handle.
C10_OnlyControllerWrites == [][wk' # wk => process' = process]_vars

\* C10: the process handle changes only when a worker spawns its subprocess
\* (line 69, the handle becomes that subprocess) or when stop() releases it
\* (line 62, the handle becomes None); start() and every other step of a
\* worker leave it unchanged.
C10_HandleWriters ==
    [][process' # process =>
            \/ /\ ctl = "stop_release"
               /\ ctl' = "idle"
               /\ process' = None
               /\ wk' = wk
            \/ \E w \in Workers :
                  /\ wk[w].pc = "spawn"
                  /\ wk' = [wk EXCEPT ![w].pc = "check"]
                  /\ process' = w
                  /\ ctl' = ctl]_vars

\* a worker has spawned, read to the end of its stream and ended, and
\* stop() has released the handle
C10_Witness ==
    /\ nStops >= 1
    /\ ctl = "idle"
    /\ process = None
    /\ \E w \in Workers : wk[w].pc = "done" /\ procs[w] = "drained"

\* a step of worker w: its position changes
Moves(w) == wk[w].pc # "unborn" /\ wk'[w].pc # wk[w].pc

\* C11: the running flag changes only in a call of start() or stop(); no
\* step of a worker changes it, also not the step in which the worker ends.
C11_OnlyControllerFlips ==
    /\ [][running' # running =>
            nStarts' = nStarts + 1 \/ nStops' = nStops + 1]_vars
    /\ [][(\E w \in Workers : Moves(w)) => running' = running]_vars

\* the only worker has ended by itself and the monitor still says Running
C11_Witness ==
    /\ nStops = 0
    /\ Created = {1}
    /\ wk[1].pc = "done"
    /\ running = TRUE

\* the events scheduled or delivered so far
Out == idleQueue \o log_store

\* C12: a worker whose spawn fails, or whose read ends or fails, ends
\* normally in that step and schedules nothing; no error ever leaves a
\* worker; and as long as no line has been read no event exists.
C12_SourceUnavailable ==
    /\ [](\A w \in Workers : wk[w].pc # "crashed")
    /\ [](nread = 0 => Out = << >>)
    /\ [][\A w \in Workers :
            wk[w].pc \in {"spawn", "read"} /\ wk'[w].pc \notin {"check", "body"}
            /\ Moves(w)
                => /\ wk'[w].pc = "done"
                   /\ idleQueue' = idleQueue
                   /\ log_store' = log_store]_vars

\* the first worker could not spawn; after a restart the second worker's
\* subprocess ended before printing anything: both threads have ended, no
\* line was read, nothing was scheduled
C12_Witness ==
    /\ wk[1].pc = "done"
    /\ procs[1] = "none"
    /\ wk[2].pc = "done"
    /\ procs[2] = "drained"
    /\ running = TRUE
    /\ nread = 0
    /\ Out = << >>

\* C13: the events scheduled or delivered so far stem from pairwise
\* different reads, and there are no more of them than lines read.
C13_AtMostOnce ==
    /\ Len(Out) <= nread
    /\ \A i, j \in 1..Len(Out) : i # j => Out[i].seq # Out[j].seq

\* two lines were read and the event of each has been delivered
C13_Witness ==
    /\ nread = 2
    /\ Len(log_store) = 2
    /\ idleQueue = << >>

(***************************************************************************)
(* Properties of the loop body, read in ParseSpec: worker 1 handles the    *)
(* one line PLine and Out holds the event of that line, if any.            *)
(***************************************************************************)
PLine == wk[1].line

PLow == line_lower(PLine)

PFull == Strip(PLine)

\* the body has run on PLine
Handled == wk[1].pc = "check"

HasPolkit == Contains(PLow, <<"polkit">>)

HasDbusDaemon == Contains(PLow, <<"dbus-daemon">>)

HasActivating == Contains(PLow, <<"activating", " ", "service">>)

HasAllowedWord ==
    \/ Contains(PLow, <<"successfully">>)
    \/ Contains(PLow, <<"accepted">>)
    \/ Contains(PLow, <<"is", " ", "authorized">>)

HasDeniedWord == Contains(PLow, <<"denied">>) \/ Contains(PLow, <<"failed">>)

\* C14: a line without "polkit" and without the pair "dbus-daemon",
\* "activating service" in its lowercase text yields no event.
C14_NoMarkerNoEvent ==
    Handled /\ ~HasPolkit /\ ~(HasDbusDaemon /\ HasActivating) => Out = << >>

\* a dbus-daemon line with a name='..' field but without "activating
\* service" has been handled and left nothing
C14_Witness ==
    /\ Handled
    /\ ~HasPolkit
    /\ HasDbusDaemon
    /\ ~HasActivating
    /\ SvcMatch(PFull) # << >>
    /\ Out = << >>

\* C15: no PolicyDecision event carries org.freedesktop.policykit.exec, and
\* a polkit line whose extracted action id is that identifier yields no
\* event.
C15_NoSelfAction ==
    /\ \A i \in 1..Len(Out) :
          Out[i].ev.family = "PolicyDecision"
              => Out[i].ev.action_id # SelfAction
    /\ Handled /\ HasPolkit /\ ActMatch(PFull) = SelfAction => Out = << >>

\* a polkit line naming the self action, with a user and an Allowed
\* keyword, has been handled and left nothing
C15_Witness ==
    /\ Handled
    /\ HasPolkit
    /\ ActMatch(PFull) = SelfAction
    /\ UserMatch(PFull) # << >>
    /\ HasAllowedWord
    /\ Out = << >>

\* the places of a line where one of the two phrasings  action <id>  and
\* Action=<id>  stands
Phrasings ==
    {i \in 1..Len(PFull) :
        \/ /\ PFull[i] = "action"
           /\ RunLen(PFull, i + 1, Whitespace) >= 1
           /\ PFull[i + 1 + RunLen(PFull, i + 1, Whitespace)] \in IdAtoms
        \/ /\ PFull[i] = "Action="
           /\ i + 1 + RunLen(PFull, i + 1, Whitespace) <= Len(PFull)
           /\ PFull[i + 1 + RunLen(PFull, i + 1, Whitespace)] \in IdAtoms}

\* the id of the phrasing at place i
PhrasedId(i) ==
    LET b == i + 1 + RunLen(PFull, i + 1, Whitespace)
    IN  SubSeq(PFull, b, b + RunLen(PFull, b, IdAtoms) - 1)

\* C16: a polkit line with neither phrasing yields no event; a polkit line
\* with one phrasing, in either form, whose id is not the self action
\* yields an event with that id.
C16_PhrasingsEquivalent ==
    Handled /\ HasPolkit =>
        /\ Phrasings = {} => Out = << >>
        /\ \A i \in Phrasings :
              Phrasings = {i} /\ PhrasedId(i) # SelfAction
                  => Len(Out) = 1 /\ Out[1].ev.action_id = PhrasedId(i)

\* C17: an event has outcome Activating exactly if it is a
\* ServiceActivation event, and a PolicyDecision event has one of the
\* outcomes Allowed, Denied, Info.
C17_ActivatingOnlyForService ==
    \A i \in 1..Len(Out) :
        /\ Out[i].ev.family \in {"PolicyDecision", "ServiceActivation"}
        /\ Out[i].ev.result = "Activating"
              <=> Out[i].ev.family = "ServiceActivation"
        /\ Out[i].ev.family = "PolicyDecision"
              => Out[i].ev.result \in {"Allowed", "Denied", "Info"}

\* the event of a service activation line that also holds a Denied
\* keyword has been delivered as Activating
C17_Witness ==
    /\ Len(log_store) = 1
    /\ log_store[1].ev.family = "ServiceActivation"
    /\ log_store[1].ev.result = "Activating"
    /\ HasDeniedWord

\* C18 as stated: no event has an empty id or the id "unknown".
C18_NeverPlaceholder ==
    \A i \in 1..Len(Out) : Out[i].ev.action_id \notin {<< >>, Unknown}

\* C18: no event has an empty id; the id of an event is always an
\* identifier matched in its line; and a line in which neither pattern
\* matches yields no event.
C18_IdExtracted ==
    /\ \A i \in 1..Len(Out) : Out[i].ev.action_id # << >>
    /\ Handled =>
          LET ids == {ActMatch(PFull), SvcMatch(PFull)} \ {<< >>}
          IN  /\ ids = {} => Out = << >>
              /\ \A i \in 1..Len(Out) : Out[i].ev.action_id \in ids

\* a polkit line with a user and an outcome keyword but no action id has
\* been handled and left nothing
C18_Witness ==
    /\ Handled
    /\ HasPolkit
    /\ ActMatch(PFull) = << >>
    /\ SvcMatch(PFull) = << >>
    /\ UserMatch(PFull) # << >>
    /\ HasDeniedWord
    /\ Out = << >>

\* C19: the outcome of a PolicyDecision event is Allowed if the lowercase
\* line holds an Allowed keyword, else Denied if it holds a Denied
\* keyword, else Info.
C19_OutcomeByKeyword ==
    Handled =>
        \A i \in 1..Len(Out) :
            Out[i].ev.family = "PolicyDecision" =>
                Out[i].ev.result =
                    IF HasAllowedWord THEN "Allowed"
                    ELSE IF HasDeniedWord THEN "Denied"
                    ELSE "Info"

\* a polkit line holding both kinds of keyword was classified Allowed
C19_Witness ==
    /\ Len(Out) = 1
    /\ Out[1].ev.family = "PolicyDecision"
    /\ HasAllowedWord
    /\ HasDeniedWord
    /\ Out[1].ev.result = "Allowed"

\* C20: a line with "polkit" yields at most a PolicyDecision event, and
\* none if no action id matches; a ServiceActivation event comes only from
\* a line without "polkit".
C20_PolkitFirst ==
    Handled =>
        /\ HasPolkit =>
              /\ ActMatch(PFull) = << >> => Out = << >>
              /\ \A i \in 1..Len(Out) : Out[i].ev.family = "PolicyDecision"
        /\ \A i \in 1..Len(Out) :
              Out[i].ev.family = "ServiceActivation" => ~HasPolkit

\* a line with "polkit", both dbus markers and a name='..' field, but no
\* action id, has been handled and left nothing
C20_Witness ==
    /\ Handled
    /\ HasPolkit
    /\ HasDbusDaemon
    /\ HasActivating
    /\ SvcMatch(PFull) # << >>
    /\ ActMatch(PFull) = << >>
    /\ Out = << >>

\* the line is routed to the dbus grammar
IsServiceLine == ~HasPolkit /\ HasDbusDaemon /\ HasActivating

\* C21: a service activation line with a name='..' field yields one event
\* whose id is that name; with a uid= field its subject is the user name
\* of that uid, or the digits themselves when the uid has no entry; a
\* service activation line without a name='..' field yields no event.
C21_ServiceSubject ==
    Handled /\ IsServiceLine =>
        /\ SvcMatch(PFull) = << >> => Out = << >>
        /\ SvcMatch(PFull) # << >> =>
              /\ Len(Out) = 1
              /\ Out[1].ev.family = "ServiceActivation"
              /\ Out[1].ev.action_id = SvcMatch(PFull)
              /\ UidMatch(PFull) = <<"1000">> => Out[1].ev.user = <<"bob">>
              /\ UidMatch(PFull) = <<"4242">> => Out[1].ev.user = <<"4242">>

\* the event of a service activation line whose uid has no entry has been
\* delivered with the digits as its subject
C21_Witness ==
    /\ IsServiceLine
    /\ UidMatch(PFull) = <<"4242">>
    /\ Len(log_store) = 1
    /\ log_store[1].ev.action_id = <<"org.example.Baz">>
    /\ log_store[1].ev.user = <<"4242">>

\* the places of the stripped line where  unix-user:  or  user=  stands,
\* in this spelling, directly followed by a name
UserPlaces ==
    {i \in 1..Len(PFull) :
        /\ PFull[i] \in {"unix-user:", "user="}
        /\ RunLen(PFull, i + 1, WordAtoms) >= 1}

\* the name that follows place i
NameAt(i) == SubSeq(PFull, i + 1, i + RunLen(PFull, i + 1, WordAtoms))

\* C22: the subject of a PolicyDecision event is the name at the first
\* place where  unix-user:<name>  or  user=<name>  stands in the line as
\* written, and "unknown" if there is no such place; a polkit line with an
\* action id other than the self action yields its event without one.
C22_PolicySubject ==
    Handled =>
        /\ \A k \in 1..Len(Out) :
              Out[k].ev.family = "PolicyDecision" =>
                  IF UserPlaces = {} THEN Out[k].ev.user = Unknown
                  ELSE \E i \in UserPlaces :
                          /\ \A j \in UserPlaces : i <= j
                          /\ Out[k].ev.user = NameAt(i)
        /\ HasPolkit /\ ActMatch(PFull) \notin {<< >>, SelfAction}
              /\ UserPlaces = {}
              => Len(Out) = 1 /\ Out[1].ev.user = Unknown

\* a polkit line with an action id, a Denied keyword and a  User=  in
\* another spelling only has been handled, and its event has the subject
\* "unknown"
C22_Witness ==
    /\ Handled
    /\ Contains(PFull, <<"User=">>)
    /\ UserPlaces = {}
    /\ HasDeniedWord
    /\ Len(Out) = 1
    /\ Out[1].ev.family = "PolicyDecision"
    /\ Out[1].ev.user = Unknown

\* C23: a worker that ends leaves the flag as it is; a start() that finds
\* the flag True changes nothing but the button, with or without a live
\* worker; and a thread is created only with the flag False, so at most
\* one more thread exists than stop() was called.
C23_DeadWorkerKeepsFlag ==
    /\ [][\A w \in Workers :
            wk[w].pc # "done" /\ wk'[w].pc = "done" => running' = running]_vars
    /\ [][nStarts' = nStarts + 1 /\ running
            => wk' = wk /\ running' /\ process' = process]_vars
    /\ [][Created' # Created => ~running /\ running']_vars
    /\ [](Cardinality(Created) <= nStops + 1)

\* the only worker has ended, stop() was never called, and a second start()
\* has found the flag True and created nothing
C23_Witness ==
    /\ nStarts = 2
    /\ nStops = 0
    /\ running = TRUE
    /\ Created = {1}
    /\ Live = {}

\* the step of worker w in which line 71 raises: the handle is None when
\* it is looked up, or readline() itself fails
ReadFails(w) ==
    /\ wk[w].pc \in {"load", "read"}
    /\ ~wk[w].caught
    /\ wk'[w].caught

\* C24: an error of line 71 never leaves the thread; the step in which it
\* is raised ends the worker and schedules and delivers nothing; a handle
\* found None at line 71 always raises; and a worker that has ended takes
\* no further step, so it reads and handles no further line.
C24_ReadErrorEndsWorker ==
    /\ [](\A w \in Workers : wk[w].pc # "crashed")
    /\ [][\A w \in Workers :
            ReadFails(w) => /\ wk'[w].pc = "done"
                            /\ idleQueue' = idleQueue
                            /\ log_store' = log_store
                            /\ nread' = nread]_vars
    /\ [][\A w \in Workers :
            wk[w].pc = "load" /\ process = None /\ Moves(w)
                => ReadFails(w)]_vars
    /\ [][\A w \in Workers : wk[w].pc = "done" => wk'[w] = wk[w]]_vars

\* stop() has run to its end between the loop test of worker 1 and its
\* read: the worker found the handle None at its first read and has ended
\* in the handler of line 120, with nothing scheduled
C24_Witness ==
    /\ wk[1].pc = "done"
    /\ wk[1].caught
    /\ wk[1].h = None
    /\ procs[1] = "dead"
    /\ process = None
    /\ nStops = 1
    /\ Out = << >>

\* the event of the line with stamp n is scheduled and not yet dispatched
Scheduled(n) == \E i \in 1..Len(idleQueue) : idleQueue[i].seq = n

\* the event of the line with stamp n has reached on_audit_event
Delivered(n) == \E i \in 1..Len(log_store) : log_store[i].seq = n

\* C25: no step of stop() changes the scheduled callbacks, which leave
\* the queue only by being dispatched; the consumer takes them oldest
\* first, one at a time, whatever the flag says; and the queue is empty
\* again and again, so that every scheduled event reaches the consumer.
C25_StopKeepsScheduled ==
    /\ [][nStops' # nStops \/ ctl' # ctl
            => idleQueue' = idleQueue /\ log_store' = log_store]_vars
    /\ [][idleQueue' # idleQueue =>
            \/ /\ Len(idleQueue') > Len(idleQueue)
               /\ SubSeq(idleQueue', 1, Len(idleQueue)) = idleQueue
            \/ log_store' = <<Head(idleQueue)>> \o log_store]_vars
    /\ [][log_store' # log_store =>
            /\ idleQueue # << >>
            /\ log_store' = <<Head(idleQueue)>> \o log_store
            /\ idleQueue' = Tail(idleQueue)]_vars
    /\ [](\A n \in 1..nread : Scheduled(n) => ~Delivered(n))
    /\ []<>(idleQueue = << >>)

\* the one event was delivered with the flag False: its id holds
\* "org.freedesktop", yet the search text was left alone, which
\* on_audit_event does only with the audit button off, that is after the
\* only stop()
C25_Witness ==
    /\ nStarts = 1
    /\ nStops = 1
    /\ running = FALSE
    /\ Len(log_store) = 1
    /\ Contains(log_store[1].ev.action_id, <<"org.freedesktop">>)
    /\ search = << >>

=============================================================================
